---- MODULE Spec2Model ----
(***************************************************************************)
(* GoalOrientedBot (deeppavlov/skills/go_bot/go_bot.py): the per-dialog    *)
(* state (tracker, db_result, prev_action), the training loops (train,     *)
(* train_on_batch), the inference loop (infer, infer_on_batch,             *)
(* _infer_dialog, _infer), the action mask, the action codec and the       *)
(* patience-based early stopping of train.                                 *)
(*                                                                         *)
(* Action ids are 0-based as in the Python lists; TLA+ sequences are       *)
(* 1-based, so list element i of the source is element i + 1 here.         *)
(* Accuracies are integers in tenths (5 stands for 0.5).                   *)
(***************************************************************************)
EXTENDS Integers, Sequences, FiniteSets, TLC

\* ------------------------------------------------------------------ bounds
NumTemplates == 3       \* templates in the loaded template file
MaxTurns == 2           \* turns of a dialog
MaxDialogs == 2         \* dialogs of a batch / of an epoch's train split
MaxEpochs == 4          \* num_epochs is drawn from 0 .. MaxEpochs
MaxPatience == 2        \* val_patience is drawn from 0 .. MaxPatience
MaxAcc == 5             \* the largest validation accuracy of a run (tenths)

\* ------------------------------------------------------- mappings (dicts)
EmptyDict == << >>

Keys(d) == DOMAIN d

\* Python's dict.update / item-wise assignment: entries of `over` win.
Overlay(base, over) == over @@ base

\* ---------------------------------------------------------------- inputs
\* what valid_metrics.action_accuracy can be, in tenths: 0 and the three
\* values up to MaxAcc
Accuracies == {0} \cup ((MaxAcc - 2)..MaxAcc)

Slots == {"food"}

\* what the slot filler can extract from one utterance
SlotFills == {EmptyDict, [k \in {"food"} |-> "thai"]}

\* a db_result is None or a mapping; None is kept apart from the empty mapping
None == [none |-> TRUE, items |-> EmptyDict]

Dict(d) == [none |-> FALSE, items |-> d]

DbFood == Dict([k \in {"food"} |-> 1])

\* the db_result a turn's context can carry (context.get('db_result'))
DbResults == {None, Dict(EmptyDict), DbFood}

\* a database result that has the text "#{}" among its keys
DbBraces == Dict([k \in {"#{}"} |-> 1])

\* str(v) of a database value
Str(v) == CASE v = 1 -> "1" [] v = 2 -> "2" [] OTHER -> "?"

\* ------------------------------------------------------------- templates
\* Template texts, as token sequences; "#food" refers to the slot food and
\* "#{}" is the literal three-character text.
TemplateText(i) ==
    CASE i % 3 = 1 -> <<"hello">>
      [] i % 3 = 2 -> <<"serves", "#food">>
      [] OTHER     -> <<"api_call", "#food", "#{}">>

\* Templates.templates: the loaded templates, in action order
templates == [i \in 1..NumTemplates |-> TemplateText(i)]

\* Templates.actions: the action labels, in the same order (labels are codes)
actions == [i \in 1..NumTemplates |-> 10 * i]

\* a label that is in no template file of NumTemplates templates
UnknownAct == 10 * NumTemplates + 7

\* labels a corpus entry can carry as response['act'] / prev_resp_act
ActLabels == {actions[i] : i \in 1..NumTemplates} \cup {UnknownAct}

\* np.zeros(n)
Zeros(n) == [i \in 0..(n - 1) |-> 0]

\* prev_action *= 0; prev_action[a] = 1
OneHot(n, a) == [i \in 0..(n - 1) |-> IF i = a THEN 1 ELSE 0]

\* np.ones(n)
Ones(n) == [i \in 0..(n - 1) |-> 1]

\* ------------------------------------------------- external collaborators
\* DefaultTracker.update_state: the extracted slot values overwrite the known ones
update_state(tr, fill) == Overlay(tr, fill)

\* DefaultTracker.infer: one binary feature per slot, "is the slot filled"
tracker_infer(tr) == [k \in Slots |-> IF k \in Keys(tr) THEN 1 ELSE 0]

\* DefaultTracker.get_state: a fresh slot -> value mapping
get_state(tr) == tr

\* the slot a template token refers to ("" when the token is no slot reference)
SlotOf(tok) == CASE tok = "#food" -> "food" [] tok = "#area" -> "area" [] OTHER -> ""

\* Template.generate_text: every "#slot" token of a known slot is replaced
generate_text(tmpl, slots) ==
    [i \in 1..Len(tmpl) |->
        IF SlotOf(tmpl[i]) \in Keys(slots) THEN slots[SlotOf(tmpl[i])] ELSE tmpl[i]]

\* re.findall('#{}', tmpl): '{}' is no quantifier, so the pattern is the literal
\* text "#{}"; the result lists its occurrences
findall(tmpl) == SelectSeq(tmpl, LAMBDA tok : tok = "#{}")

\* Python list indexing seq[i]: negative i counts from the end
InRange(seq, i) == -Len(seq) <= i /\ i < Len(seq)

PyIndex(seq, i) == IF i >= 0 THEN seq[i + 1] ELSE seq[Len(seq) + i + 1]

\* ------------------------------------------------- GoalOrientedBot (pure)
\* The bot's attributes that a turn reads or writes,
\* s = [n_actions, tracker, db_result, prev_action, net_state]; net_state is the
\* network's recurrent state, "reset" or "dirty".

\* reset that forgets the database result
reset_keeps_db(s) ==
    [s EXCEPT !.tracker = EmptyDict,
              !.prev_action = Zeros(s.n_actions), !.net_state = "reset"]

reset(s) ==
    [s EXCEPT !.tracker = EmptyDict, !.db_result = None,
              !.prev_action = Zeros(s.n_actions), !.net_state = "reset"]

\* _encode_context with flags that take a missing db_result for an empty one
encode_context_none_is_empty(s, fill, db) ==
    LET tr == update_state(s.tracker, fill)
    IN  [self |-> [s EXCEPT !.tracker = tr],
         features |->
            [state |-> tracker_infer(tr),
             ctx |-> << IF db.items = EmptyDict THEN 1 ELSE 0,
                        IF s.db_result.items = EmptyDict THEN 1 ELSE 0 >>,
             prev |-> s.prev_action]]

\* _encode_context: pushes the turn's slots into the tracker, then builds the
\* feature vector; `db` is the turn's db_result. Returns the new state and the
\* segments of the vector that depend on the dialog state.
encode_context(s, fill, db) ==
    LET tr == update_state(s.tracker, fill)
    IN  [self |-> [s EXCEPT !.tracker = tr],
         features |->
            [state |-> tracker_infer(tr),
             ctx |-> << IF db = Dict(EmptyDict) THEN 1 ELSE 0,
                        IF s.db_result = Dict(EmptyDict) THEN 1 ELSE 0 >>,
             prev |-> s.prev_action]]

\* _encode_response: templates.actions.index(act); raises ValueError when absent
KnownAct(act) == \E i \in 1..Len(actions) : actions[i] = act

\* an index counted from 1 instead of 0
encode_response_from_one(act) ==
    CHOOSE i \in 1..Len(actions) :
        actions[i] = act /\ \A k \in 1..(i - 1) : actions[k] # act

encode_response(act) ==
    (CHOOSE i \in 1..Len(actions) :
        actions[i] = act /\ \A k \in 1..(i - 1) : actions[k] # act) - 1

\* _decode_response: raises IndexError when templates[int(action_id)] does
DecodeOk(action_id) == InRange(templates, action_id)

\* a decoder in which the tracker's values win over the database result's
decode_response_tracker_wins(s, action_id) ==
    LET template == PyIndex(templates, action_id)
        db == IF s.db_result # None
                THEN [k \in Keys(s.db_result.items) |-> Str(s.db_result.items[k])]
                ELSE EmptyDict
        slots == Overlay(db, get_state(s.tracker))
    IN  generate_text(template, slots)

decode_response(s, action_id) ==
    LET template == PyIndex(templates, action_id)
        db == IF s.db_result # None
                THEN [k \in Keys(s.db_result.items) |-> Str(s.db_result.items[k])]
                ELSE EmptyDict
        slots == Overlay(get_state(s.tracker), db)
    IN  generate_text(template, slots)

\* _action_mask that masks whether or not use_action_mask is set
action_mask_always(s, use_mask) ==
    LET known == Keys(get_state(s.tracker)) \cup
                 Keys((IF s.db_result = None THEN Dict(EmptyDict) ELSE s.db_result).items)
        ents(a_id) == findall(templates[a_id + 1])
    IN  [a_id \in 0..(s.n_actions - 1) |->
            IF \E e \in 1..Len(ents(a_id)) : ents(a_id)[e] \notin known
              THEN 0 ELSE 1]

\* _action_mask
action_mask(s, use_mask) ==
    LET known == Keys(get_state(s.tracker)) \cup
                 Keys((IF s.db_result = None THEN Dict(EmptyDict) ELSE s.db_result).items)
        ents(a_id) == findall(templates[a_id + 1])
    IN  [a_id \in 0..(s.n_actions - 1) |->
            IF use_mask /\ \E e \in 1..Len(ents(a_id)) : ents(a_id)[e] \notin known
              THEN 0 ELSE 1]

\* prev_action[action_id] = 1. without the zeroing before it
teacher_force_no_zeroing(s, action_id) ==
    [s EXCEPT !.prev_action = [i \in DOMAIN s.prev_action |->
                                  IF i = action_id THEN 1 ELSE s.prev_action[i]]]

\* prev_action *= 0.; prev_action[action_id] = 1.
teacher_force(s, action_id) ==
    [s EXCEPT !.prev_action = [i \in DOMAIN s.prev_action |-> IF i = action_id THEN 1 ELSE 0]]

\* the stored result replaced on every turn, also by a missing db_result
update_db_result_always(s, db) == [s EXCEPT !.db_result = db]

\* if db_result is not None: self.db_result = db_result
update_db_result(s, db) == IF db # None THEN [s EXCEPT !.db_result = db] ELSE s

\* np.argmax: the first index of the largest entry
argmax(probs) ==
    CHOOSE i \in DOMAIN probs :
        /\ \A k \in DOMAIN probs : probs[k] <= probs[i]
        /\ \A k \in DOMAIN probs : k < i => probs[k] < probs[i]

\* an inference turn whose features are built after prev_action has taken the
\* turn's own prediction
infer_turn_encode_last(s, fill, db, probs, prob, use_mask) ==
    LET pred_id == argmax(probs)
        e == encode_context(teacher_force(s, pred_id), fill, db)
        m == action_mask(e.self, use_mask)
        s2 == update_db_result([e.self EXCEPT !.net_state = "dirty"], db)
    IN  [self |-> s2, features |-> e.features, mask |-> m, pred_id |-> pred_id,
         text |-> decode_response(s2, pred_id)]

\* _infer: one inference turn. `probs` is what network.infer returns for the
\* encoded turn. The arguments of network.infer are evaluated in order, so the
\* mask is built after the tracker update of _encode_context and before the
\* turn's db_result is stored.
infer_turn(s, fill, db, probs, prob, use_mask) ==
    LET e == encode_context(s, fill, db)
        m == action_mask(e.self, use_mask)
        pred_id == argmax(probs)
        s1 == update_db_result([e.self EXCEPT !.net_state = "dirty"], db)
        s2 == IF prob THEN [s1 EXCEPT !.prev_action = probs]
                      ELSE teacher_force(s1, pred_id)
    IN  [self |-> s2, features |-> e.features, mask |-> m, pred_id |-> pred_id,
         text |-> decode_response(s2, pred_id)]

\* a training turn that teacher-forces the turn's own action before encoding it
train_turn_force_first(s, fill, db, act, use_mask) ==
    LET action_id == encode_response(act)
        e == encode_context(teacher_force(s, action_id), fill, db)
        s2 == update_db_result(e.self, db)
    IN  [self |-> s2, features |-> e.features, action_id |-> action_id,
         mask |-> action_mask(s2, use_mask)]

\* lines 188-200 of train_on_batch and 231-243 of train: one (context, response)
\* pair with a known action label `act`. The features are encoded first, then
\* the turn's db_result is stored, then the ground-truth action is teacher-forced
\* into prev_action, then the mask is built.
train_turn(s, fill, db, act, use_mask) ==
    LET e == encode_context(s, fill, db)
        s1 == update_db_result(e.self, db)
        action_id == encode_response(act)
        s2 == teacher_force(s1, action_id)
    IN  [self |-> s2, features |-> e.features, action_id |-> action_id,
         mask |-> action_mask(s2, use_mask)]

\* a break that also skips save()
loop_exit_no_save(stop) == IF stop THEN "idle" ELSE "epoch"

\* lines 284-289 of train: break leaves the loop for save(), otherwise the next
\* iteration follows
loop_exit(stop) == IF stop THEN "save" ELSE "epoch"

\* train without the check of the network's train_now
train_guard_unchecked(own, net) == IF ~own THEN "skip" ELSE "run"

\* check_attr_true('train_now') and lines 207-210 of train: what a call of
\* train does before anything else
train_guard(own, net) ==
    IF ~own THEN "skip" ELSE IF ~net THEN "ConfigError" ELSE "run"

\* patience that also drops when the accuracy only equals the best
early_stop_on_ties(patience, best, accuracy, max_patience) ==
    LET p == IF accuracy <= best THEN patience - 1 ELSE max_patience
        b == IF accuracy <= best THEN best ELSE accuracy
    IN  [curr_patience |-> p, best_valid_accuracy |-> b, stop |-> p < 1]

\* the best accuracy overwritten by every epoch's accuracy
early_stop_last_is_best(patience, best, accuracy, max_patience) ==
    LET p == IF accuracy < best THEN patience - 1 ELSE max_patience
    IN  [curr_patience |-> p, best_valid_accuracy |-> accuracy, stop |-> p < 1]

\* a loop that stops with one unit of patience left
early_stop_one_early(patience, best, accuracy, max_patience) ==
    LET p == IF accuracy < best THEN patience - 1 ELSE max_patience
        b == IF accuracy < best THEN best ELSE accuracy
    IN  [curr_patience |-> p, best_valid_accuracy |-> b, stop |-> p <= 1]

\* lines 276-286 of train: the patience bookkeeping after one epoch
early_stop(patience, best, accuracy, max_patience) ==
    LET p == IF accuracy < best THEN patience - 1 ELSE max_patience
        b == IF accuracy < best THEN best ELSE accuracy
    IN  [curr_patience |-> p, best_valid_accuracy |-> b, stop |-> p < 1]

\* ------------------------------------------------------------------ state
VARIABLES
    \* configuration, set by __init__
    use_action_mask, train_now, net_train_now, num_epochs, val_patience,
    horizon,            \* the longest dialog the corpus / batch source yields
    db_inputs,          \* the db_results the turns of the corpus / batch can carry
    \* attributes of the bot
    n_actions, tracker, db_result, prev_action, net_state, metrics,
    \* control: the running entry point and its position
    pc, entry, dialogs_left, dlg_len, t_idx,
    \* locals of the training loops
    d_features, d_actions, d_masks,
    j, curr_patience, best_valid_accuracy, valid_accuracy, outcome,
    \* locals of the inference loop
    context, features, mask, res, out,
    net_probs,          \* what network.infer returned for the last inference turn
    decoded,            \* the index and the result of a direct _decode_response call
    \* observations: what was raised, and calls counted per entry-point call
    \* (saves, net_trains) or per dialog (dlg_resets, dlg_turns)
    err, saves, net_trains, dlg_resets, dlg_turns,
    \* observations of one train call: the largest validation accuracy seen so
    \* far (0 before the first), and the number of epochs, up to the last one,
    \* that came in a row each with an accuracy strictly below the largest before it
    seen_max, below_run,
    \* ... and whether no epoch's accuracy was below an earlier epoch's
    monotone

cfg_vars == <<use_action_mask, train_now, net_train_now, num_epochs, val_patience, horizon,
             db_inputs>>

self_vars == <<n_actions, tracker, db_result, prev_action, net_state>>

ctl_vars == <<pc, entry, dialogs_left, dlg_len, t_idx>>

train_vars == <<d_features, d_actions, d_masks>>

epoch_vars == <<j, curr_patience, best_valid_accuracy, valid_accuracy, outcome>>

infer_vars == <<context, features, mask, res, out, net_probs, decoded>>

obs_vars == <<err, saves, net_trains, dlg_resets, dlg_turns, seen_max, below_run,
             monotone>>

vars == <<cfg_vars, self_vars, metrics, ctl_vars, train_vars, epoch_vars, infer_vars, obs_vars>>

Self ==
    [n_actions |-> n_actions, tracker |-> tracker, db_result |-> db_result,
     prev_action |-> prev_action, net_state |-> net_state]

SetSelf(s) ==
    /\ n_actions' = s.n_actions
    /\ tracker' = s.tracker
    /\ db_result' = s.db_result
    /\ prev_action' = s.prev_action
    /\ net_state' = s.net_state

\* DialogMetrics.reset / the fresh DialogMetrics of __init__
NoMetrics == [n_dialogs |-> 0, n_examples |-> 0]

\* a turn context that carries nothing; `context` keeps the turn's db_result and
\* its action label (response['act'] in training, prev_resp_act in inference)
NoContext == [db_result |-> None, act |-> << >>]

NoFeatures == [state |-> << >>, ctx |-> << >>, prev |-> << >>]

\* no direct call of _decode_response has been made
NoDecode == [id |-> 0, text |-> << >>]

\* __init__ under a given configuration
InitWith(masks, epochs, patiences, flags, longest, dbs) ==
    /\ use_action_mask \in masks
    /\ train_now \in flags
    /\ net_train_now \in flags
    /\ num_epochs \in epochs
    /\ val_patience \in patiences
    /\ horizon = longest
    /\ db_inputs = dbs
    /\ n_actions = Len(templates)
    /\ tracker = EmptyDict
    /\ db_result = None
    /\ prev_action = Zeros(Len(templates))
    /\ net_state = "reset"
    /\ metrics = NoMetrics
    /\ pc = "idle"
    /\ entry = "init"
    /\ dialogs_left = 0
    /\ dlg_len = 0
    /\ t_idx = 0
    /\ d_features = << >>
    /\ d_actions = << >>
    /\ d_masks = << >>
    /\ j = 0
    /\ curr_patience = 0
    /\ best_valid_accuracy = 0
    /\ valid_accuracy = 0
    /\ outcome = "none"
    /\ context = NoContext
    /\ features = NoFeatures
    /\ mask = << >>
    /\ net_probs = << >>
    /\ decoded = NoDecode
    /\ res = << >>
    /\ out = 0
    /\ err = "none"
    /\ saves = 0
    /\ net_trains = 0
    /\ dlg_resets = 0
    /\ dlg_turns = 0
    /\ seen_max = 0
    /\ below_run = 0
    /\ monotone = TRUE

\* ---------------------------------------------------------------- helpers
\* what network.infer(..., prob=True) can return: a distribution over the
\* actions (in units of 1 / (2 n)) for each possible arg-max
NetOutputs(n) == {[i \in 0..(n - 1) |-> IF i = p THEN n + 1 ELSE 1] : p \in 0..(n - 1)}

\* the dialog states an inference pass over some dialogs can leave behind
AfterInference(s) ==
    {s, reset(s)} \cup
    {[s EXCEPT !.tracker = tr, !.db_result = db,
               !.prev_action = OneHot(s.n_actions, a), !.net_state = "dirty"] :
        tr \in SlotFills, db \in DbResults, a \in 0..(s.n_actions - 1)}

\* a public method is entered: the locals and the per-call observations start afresh
Enter(name, raised, loop) ==
    /\ pc = "idle"
    /\ entry' = name
    /\ err' = raised
    /\ outcome' = loop
    /\ saves' = 0
    /\ net_trains' = 0
    /\ d_features' = << >>
    /\ d_actions' = << >>
    /\ d_masks' = << >>
    /\ dlg_len' = 0
    /\ t_idx' = 0
    /\ j' = 0
    /\ valid_accuracy' = 0
    /\ monotone' = TRUE
    /\ seen_max' = 0
    /\ below_run' = 0

\* -------------------------------------------------------- public: reset()
CallReset ==
    /\ Enter("reset", "none", "none")
    /\ SetSelf(reset(Self))
    /\ dlg_resets' = 1
    /\ dlg_turns' = 0
    /\ pc' = "idle"
    /\ dialogs_left' = 0
    /\ curr_patience' = 0
    /\ best_valid_accuracy' = 0
    /\ UNCHANGED <<cfg_vars, metrics, infer_vars>>

\* ------------------------------------------- _decode_response(action_id)
\* the indices a direct call is given: the valid ones and some on either side
DecodeIds == (0 - NumTemplates - 1)..(NumTemplates + 1)

\* lines 156-168 called on their own, with the dialog state as it is:
\* templates[int(action_id)] raises IndexError where a Python list does
CallDecode ==
    /\ \E action_id \in DecodeIds :
          /\ Enter("decode", IF DecodeOk(action_id) THEN "none" ELSE "IndexError", "none")
          /\ decoded' = [id |-> action_id,
                         text |-> IF DecodeOk(action_id)
                                    THEN decode_response(Self, action_id)
                                    ELSE << >>]
    /\ pc' = "idle"
    /\ dialogs_left' = 0
    /\ curr_patience' = 0
    /\ best_valid_accuracy' = 0
    /\ UNCHANGED <<cfg_vars, self_vars, metrics, context, features, mask, res, out,
                   net_probs, dlg_resets, dlg_turns>>

\* ------------------------------------------------- public: infer(x: str)
\* infer hands a string straight to _infer: one turn against the dialog state
\* as it is, with no db_result and no teacher forcing.
CallInferStr ==
    /\ Enter("infer_str", "none", "none")
    /\ dlg_turns < MaxTurns
    /\ \E fill \in SlotFills, probs \in NetOutputs(n_actions) :
        LET r == infer_turn(Self, fill, None, probs, FALSE, use_action_mask)
        IN  /\ SetSelf(r.self)
            /\ context' = [db_result |-> None, act |-> << >>]
            /\ features' = r.features
            /\ mask' = r.mask
            /\ net_probs' = probs
            /\ decoded' = NoDecode
            /\ res' = << r.text >>
    /\ out' = 0
    /\ dlg_turns' = dlg_turns + 1
    /\ pc' = "idle"
    /\ dialogs_left' = 0
    /\ curr_patience' = 0
    /\ best_valid_accuracy' = 0
    /\ UNCHANGED <<cfg_vars, metrics, dlg_resets>>

\* ------------------------------------- public: infer(xs) / infer_on_batch
CallInfer ==
    /\ Enter("infer", "none", "none")
    /\ dialogs_left' \in 0..MaxDialogs
    /\ pc' = "infer_dialog"
    /\ curr_patience' = 0
    /\ best_valid_accuracy' = 0
    /\ context' = NoContext
    /\ features' = NoFeatures
    /\ mask' = << >>
    /\ net_probs' = << >>
    /\ decoded' = NoDecode
    /\ res' = << >>
    /\ out' = 0
    /\ UNCHANGED <<cfg_vars, self_vars, metrics, dlg_resets, dlg_turns>>

\* _infer_dialog without its reset
InferDialogStartNoReset ==
    /\ pc = "infer_dialog"
    /\ dialogs_left > 0
    /\ res' = << >>
    /\ dlg_len' \in 0..horizon
    /\ t_idx' = 0
    /\ pc' = "infer_turn"
    /\ UNCHANGED <<cfg_vars, self_vars, metrics, entry, dialogs_left, train_vars,
                   epoch_vars, context, features, mask, out, net_probs, decoded, obs_vars>>

\* _infer_dialog, lines 314-315: reset, then the turns of the dialog
InferDialogStart ==
    /\ pc = "infer_dialog"
    /\ dialogs_left > 0
    /\ SetSelf(reset(Self))
    /\ dlg_resets' = 1
    /\ dlg_turns' = 0
    /\ res' = << >>
    /\ dlg_len' \in 0..horizon
    /\ t_idx' = 0
    /\ pc' = "infer_turn"
    /\ UNCHANGED <<cfg_vars, metrics, entry, dialogs_left, train_vars, epoch_vars,
                   context, features, mask, out, net_probs, decoded, err, saves, net_trains, seen_max,
                   below_run, monotone>>

\* _infer_dialog, lines 316-323: one turn of the dialog
InferTurn ==
    /\ pc = "infer_turn"
    /\ t_idx < dlg_len
    /\ \E fill \in SlotFills, db \in db_inputs,
          act \in {<< >>} \cup {<<l>> : l \in ActLabels},
          probs \in NetOutputs(n_actions) :
        /\ context' = [db_result |-> db, act |-> act]
        /\ IF act # << >> /\ ~KnownAct(act[1])
             THEN \* _encode_response raises; the exception leaves infer
                  /\ err' = "LookupError"
                  /\ pc' = "idle"
                  /\ features' = NoFeatures
                  /\ mask' = << >>
                  /\ net_probs' = << >>
                  /\ decoded' = NoDecode
                  /\ res' = << >>
                  /\ UNCHANGED <<self_vars, t_idx, dlg_turns>>
             ELSE LET s0 == IF act # << >>
                              THEN teacher_force(Self, encode_response(act[1]))
                              ELSE Self
                      r == infer_turn(s0, fill, db, probs, FALSE, use_action_mask)
                  IN  /\ SetSelf(r.self)
                      /\ features' = r.features
                      /\ mask' = r.mask
                      /\ net_probs' = probs
                      /\ decoded' = NoDecode
                      /\ res' = Append(res, r.text)
                      /\ t_idx' = t_idx + 1
                      /\ dlg_turns' = dlg_turns + 1
                      /\ UNCHANGED <<err, pc>>
    /\ UNCHANGED <<cfg_vars, metrics, entry, dialogs_left, dlg_len, train_vars,
                   epoch_vars, out, saves, net_trains, dlg_resets, seen_max, below_run, monotone>>

\* _infer_dialog that may return before the dialog's last turn
InferDialogEndEarly ==
    /\ pc = "infer_turn"
    /\ t_idx <= dlg_len
    /\ out' = out + 1
    /\ dialogs_left' = dialogs_left - 1
    /\ pc' = "infer_dialog"
    /\ context' = NoContext
    /\ features' = NoFeatures
    /\ mask' = << >>
    /\ net_probs' = << >>
    /\ decoded' = NoDecode
    /\ res' = << >>
    /\ UNCHANGED <<cfg_vars, self_vars, metrics, entry, dlg_len, t_idx, train_vars,
                   epoch_vars, obs_vars>>

\* _infer_dialog, line 324: the dialog's responses are returned and join the
\* list infer_on_batch builds; `out` counts the dialogs whose responses are in
\* that list, and the locals of the finished call are dropped
InferDialogEnd ==
    /\ pc = "infer_turn"
    /\ t_idx = dlg_len
    /\ out' = out + 1
    /\ dialogs_left' = dialogs_left - 1
    /\ pc' = "infer_dialog"
    /\ context' = NoContext
    /\ features' = NoFeatures
    /\ mask' = << >>
    /\ net_probs' = << >>
    /\ decoded' = NoDecode
    /\ res' = << >>
    /\ UNCHANGED <<cfg_vars, self_vars, metrics, entry, dlg_len, t_idx, train_vars,
                   epoch_vars, obs_vars>>

\* infer_on_batch returns
InferReturn ==
    /\ pc = "infer_dialog"
    /\ dialogs_left = 0
    /\ pc' = "idle"
    /\ UNCHANGED <<cfg_vars, self_vars, metrics, entry, dialogs_left, dlg_len, t_idx,
                   train_vars, epoch_vars, infer_vars, obs_vars>>

\* ------------------------------------------------ public: train_on_batch
\* check_attr_true('train_now'): the method runs only when the bot's own
\* train_now is true, and does nothing otherwise
CallTrainOnBatch ==
    /\ Enter("train_on_batch", "none", "none")
    /\ IF train_now
         THEN /\ dialogs_left' \in 0..MaxDialogs
              /\ pc' = "train_dialog"
         ELSE /\ dialogs_left' = 0
              /\ pc' = "idle"
    /\ curr_patience' = 0
    /\ best_valid_accuracy' = 0
    /\ context' = NoContext
    /\ features' = NoFeatures
    /\ mask' = << >>
    /\ net_probs' = << >>
    /\ decoded' = NoDecode
    /\ res' = << >>
    /\ out' = 0
    /\ UNCHANGED <<cfg_vars, self_vars, metrics, dlg_resets, dlg_turns>>

\* lines 185-186 of train_on_batch, 226-228 of train: a dialog starts
TrainDialogStart ==
    /\ pc = "train_dialog"
    /\ dialogs_left > 0
    /\ SetSelf(reset(Self))
    /\ dlg_resets' = 1
    /\ dlg_turns' = 0
    /\ net_trains' = 0
    /\ metrics' = IF entry = "train"
                    THEN [metrics EXCEPT !.n_dialogs = @ + 1]
                    ELSE metrics
    /\ d_features' = << >>
    /\ d_actions' = << >>
    /\ d_masks' = << >>
    /\ dlg_len' \in 0..horizon
    /\ t_idx' = 0
    /\ pc' = "train_turn"
    /\ UNCHANGED <<cfg_vars, entry, dialogs_left, epoch_vars, infer_vars, err, saves,
                   seen_max, below_run, monotone>>

\* lines 187-200 of train_on_batch, 230-243 of train: one (context, response) pair
TrainTurn ==
    /\ pc = "train_turn"
    /\ t_idx < dlg_len
    /\ \E fill \in SlotFills, db \in db_inputs, act \in ActLabels :
        LET e == encode_context(Self, fill, db)
            s1 == update_db_result(e.self, db)
        IN  /\ context' = [db_result |-> db, act |-> <<act>>]
            /\ IF ~KnownAct(act)
                 THEN \* _encode_response raises; the exception leaves the method
                      \* and its locals are dropped
                      /\ SetSelf(s1)
                      /\ err' = "LookupError"
                      /\ pc' = "idle"
                      /\ features' = NoFeatures
                      /\ mask' = << >>
                      /\ net_probs' = << >>
                      /\ decoded' = NoDecode
                      /\ d_features' = << >>
                      /\ d_actions' = << >>
                      /\ d_masks' = << >>
                      /\ UNCHANGED <<t_idx, dlg_turns>>
                 ELSE LET r == train_turn(Self, fill, db, act, use_action_mask)
                      IN  /\ SetSelf(r.self)
                          /\ features' = r.features
                          /\ d_features' = Append(d_features, r.features)
                          /\ d_actions' = Append(d_actions, r.action_id)
                          /\ mask' = r.mask
                          /\ net_probs' = << >>
                          /\ decoded' = NoDecode
                          /\ d_masks' = Append(d_masks, r.mask)
                          /\ t_idx' = t_idx + 1
                          /\ dlg_turns' = dlg_turns + 1
                          /\ UNCHANGED <<err, pc>>
    /\ UNCHANGED <<cfg_vars, metrics, entry, dialogs_left, dlg_len, epoch_vars,
                   res, out, saves, net_trains, dlg_resets, seen_max, below_run, monotone>>

\* network.train called at any point of the dialog's turn loop
NetworkTrainAnytime ==
    /\ pc = "train_turn"
    /\ t_idx <= dlg_len
    /\ net_state' = "dirty"
    /\ net_trains' = net_trains + 1
    /\ metrics' = IF entry = "train"
                    THEN [metrics EXCEPT !.n_examples = @ + Len(d_actions)]
                    ELSE metrics
    /\ dialogs_left' = dialogs_left - 1
    /\ pc' = "train_dialog"
    /\ d_features' = << >>
    /\ d_actions' = << >>
    /\ d_masks' = << >>
    /\ context' = NoContext
    /\ features' = NoFeatures
    /\ mask' = << >>
    /\ net_probs' = << >>
    /\ decoded' = NoDecode
    /\ UNCHANGED <<cfg_vars, n_actions, tracker, db_result, prev_action, entry, dlg_len,
                   t_idx, epoch_vars, res, out, err, saves, dlg_resets, dlg_turns,
                   seen_max, below_run, monotone>>

\* line 202 of train_on_batch, 245-256 of train: the dialog's three lists go to
\* network.train; they are not read again and are dropped
NetworkTrain ==
    /\ pc = "train_turn"
    /\ t_idx = dlg_len
    /\ net_state' = "dirty"
    /\ net_trains' = net_trains + 1
    /\ metrics' = IF entry = "train"
                    THEN [metrics EXCEPT !.n_examples = @ + Len(d_actions)]
                    ELSE metrics
    /\ dialogs_left' = dialogs_left - 1
    /\ pc' = "train_dialog"
    /\ d_features' = << >>
    /\ d_actions' = << >>
    /\ d_masks' = << >>
    /\ context' = NoContext
    /\ features' = NoFeatures
    /\ mask' = << >>
    /\ net_probs' = << >>
    /\ decoded' = NoDecode
    /\ UNCHANGED <<cfg_vars, n_actions, tracker, db_result, prev_action, entry, dlg_len,
                   t_idx, epoch_vars, res, out, err, saves, dlg_resets, dlg_turns,
                   seen_max, below_run, monotone>>

\* the dialogs are used up: train_on_batch returns, train goes on to evaluate
TrainDialogsDone ==
    /\ pc = "train_dialog"
    /\ dialogs_left = 0
    /\ pc' = IF entry = "train" THEN "evaluate" ELSE "idle"
    /\ UNCHANGED <<cfg_vars, self_vars, metrics, entry, dialogs_left, dlg_len, t_idx,
                   train_vars, epoch_vars, infer_vars, obs_vars>>

\* ----------------------------------------------------------- public: train
\* lines 204-215: the guards, then the loop's initial values
CallTrain ==
    /\ LET g == train_guard(train_now, net_train_now)
       IN  IF g = "run"
             THEN /\ Enter("train", "none", "RUNNING")
                  /\ pc' = "epoch"
                  /\ curr_patience' = val_patience
             ELSE /\ Enter("train", IF g = "skip" THEN "none" ELSE g, "none")
                  /\ pc' = "idle"
                  /\ curr_patience' = 0
    /\ best_valid_accuracy' = 0
    /\ dialogs_left' = 0
    /\ context' = NoContext
    /\ features' = NoFeatures
    /\ mask' = << >>
    /\ net_probs' = << >>
    /\ decoded' = NoDecode
    /\ res' = << >>
    /\ out' = 0
    /\ UNCHANGED <<cfg_vars, self_vars, metrics, dlg_resets, dlg_turns>>

\* lines 217-221: the next epoch starts, or the range is used up (line 288)
EpochStart ==
    /\ pc = "epoch"
    /\ \/ /\ j < num_epochs
          /\ metrics' = NoMetrics
          /\ dialogs_left' \in 0..MaxDialogs
          /\ pc' = "train_dialog"
          /\ UNCHANGED outcome
       \/ /\ j >= num_epochs
          /\ outcome' = "MAX_EPOCHS_REACHED"
          /\ pc' = "save"
          /\ UNCHANGED <<metrics, dialogs_left>>
    /\ UNCHANGED <<cfg_vars, self_vars, entry, dlg_len, t_idx, train_vars, j,
                   curr_patience, best_valid_accuracy, valid_accuracy, infer_vars,
                   obs_vars>>

\* lines 268-274: the two evaluation passes. evaluate runs the inference loop
\* over the split's dialogs; it leaves one of the dialog states that loop can
\* leave and yields the validation action accuracy.
Evaluate ==
    /\ pc = "evaluate"
    /\ \E s \in AfterInference(Self) : SetSelf(s)
    /\ valid_accuracy' \in Accuracies
    /\ pc' = "early_stop"
    /\ UNCHANGED <<cfg_vars, metrics, entry, dialogs_left, dlg_len, t_idx, train_vars,
                   j, curr_patience, best_valid_accuracy, outcome, infer_vars, obs_vars>>

\* lines 276-286: patience bookkeeping, then break or the next iteration; the
\* epoch's metrics are not read again
EarlyStop ==
    /\ pc = "early_stop"
    /\ LET r == early_stop(curr_patience, best_valid_accuracy, valid_accuracy,
                           val_patience)
       IN  /\ curr_patience' = r.curr_patience
           /\ best_valid_accuracy' = r.best_valid_accuracy
           /\ outcome' = IF r.stop THEN "PATIENCE_EXHAUSTED" ELSE outcome
           /\ pc' = loop_exit(r.stop)
    /\ j' = j + 1
    /\ valid_accuracy' = 0
    /\ seen_max' = IF valid_accuracy > seen_max THEN valid_accuracy ELSE seen_max
    /\ below_run' = IF valid_accuracy < seen_max THEN below_run + 1 ELSE 0
    /\ monotone' = (monotone /\ valid_accuracy >= seen_max)
    /\ UNCHANGED <<cfg_vars, self_vars, metrics, entry, dialogs_left, dlg_len, t_idx,
                   train_vars, infer_vars, err, saves, net_trains, dlg_resets,
                   dlg_turns>>

\* line 289 and save(), lines 343-345: network.save(), then train returns
Save ==
    /\ pc = "save"
    /\ saves' = saves + 1
    /\ pc' = "idle"
    /\ UNCHANGED <<cfg_vars, self_vars, metrics, entry, dialogs_left, dlg_len, t_idx,
                   train_vars, epoch_vars, infer_vars, err, net_trains, dlg_resets,
                   dlg_turns, seen_max, below_run, monotone>>

\* --------------------------------------------------------- specifications
InferSteps ==
    \/ InferDialogStart
    \/ InferTurn
    \/ InferDialogEnd
    \/ InferReturn

BatchSteps ==
    \/ TrainDialogStart
    \/ TrainTurn
    \/ NetworkTrain
    \/ TrainDialogsDone

EpochSteps ==
    \/ EpochStart
    \/ Evaluate
    \/ EarlyStop
    \/ Save

\* The dialog-level methods: reset, infer on a string or on a batch of dialogs,
\* train_on_batch, on dialogs of up to MaxTurns turns.
Next ==
    \/ CallReset
    \/ CallInferStr
    \/ CallInfer
    \/ InferSteps
    \/ CallTrainOnBatch
    \/ BatchSteps

Init == InitWith(BOOLEAN, {1}, {1}, {TRUE}, MaxTurns, DbResults)

Spec == Init /\ [][Next]_vars

\* Every public method, train included, with training enabled and one epoch.
NextAll == Next \/ CallTrain \/ EpochSteps

SpecAll == Init /\ [][NextAll]_vars

\* train, and infer on single utterances between the calls of train, with
\* masking enabled, under every configuration of num_epochs, val_patience and
\* the two train_now flags, on single-turn training dialogs.
NextTrain == CallTrain \/ BatchSteps \/ EpochSteps \/ CallInferStr

InitTrain == InitWith({TRUE}, 0..MaxEpochs, 0..MaxPatience, BOOLEAN, 1, DbResults)

SpecTrain == InitTrain /\ [][NextTrain]_vars

\* the codec called directly, in the dialog states single utterances leave
NextCodec == CallReset \/ CallInferStr \/ CallDecode

SpecCodec == Init /\ [][NextCodec]_vars

\* the two loops over dialogs whose database results can have the key "#{}"
NextMask == CallTrainOnBatch \/ BatchSteps \/ CallInfer \/ InferSteps

InitMask == InitWith(BOOLEAN, {1}, {1}, {TRUE}, MaxTurns, DbResults \cup {DbBraces})

SpecMask == InitMask /\ [][NextMask]_vars

\* ----------------------------------------------------------------- claims
\* the dialog state as reset() leaves it
Fresh ==
    /\ tracker = EmptyDict
    /\ db_result = None
    /\ db_result # Dict(EmptyDict)
    /\ prev_action = Zeros(n_actions)
    /\ net_state = "reset"

\* reset() was the last thing to touch the dialog state: it was called as a
\* public method, or a dialog of a batch has started and no turn has run yet
JustReset ==
    \/ pc = "idle" /\ entry = "reset"
    \/ pc \in {"infer_turn", "train_turn"} /\ t_idx = 0

\* C1: whatever ran before, reset() leaves prev_action all zero with n_actions
\* entries, db_result None (which is not the empty mapping), the tracker empty
\* and the network's recurrent state reset.
C1_ResetClearsDialogState == JustReset => Fresh

\* reset() called by the user after an utterance had left a response, a
\* non-zero previous action in the features and a dirty dialog state
C1_Witness ==
    /\ pc = "idle"
    /\ entry = "reset"
    /\ Len(res) = 1
    /\ features.prev # Zeros(n_actions)
    /\ Fresh

\* C2, as claimed: through every public entry point, infer on a single
\* utterance included, a turn is only ever encoded in a dialog for which
\* reset() was called exactly once.
C2_ResetBeforeEveryTurn == dlg_turns >= 1 => dlg_resets = 1

\* C2, amended: in train, train_on_batch and infer on a batch of dialogs, while
\* a dialog's turns are processed reset() has been called exactly once for it,
\* and every turn encoded since that call is a turn of this dialog (the call
\* came before the first turn and none came between two turns).
C2_ResetOncePerBatchDialog ==
    pc \in {"train_turn", "infer_turn"} => dlg_resets = 1 /\ dlg_turns = t_idx

\* two turns of a dialog of train encoded after its one reset
C2_Witness ==
    /\ pc = "train_turn"
    /\ entry = "train"
    /\ t_idx >= 2
    /\ dlg_resets = 1
    /\ dlg_turns = t_idx

\* C3: in the training loop the previous-action segment of the first turn's
\* features is all zero and that of every later turn is the one-hot vector of
\* the turn before's ground-truth action; no turn's features hold the turn's
\* own action, which is forced only after they are built.
C3_TeacherForcedFeatures ==
    pc = "train_turn" =>
        /\ Len(d_features) = t_idx
        /\ Len(d_actions) = t_idx
        /\ \A i \in 1..Len(d_features) :
              d_features[i].prev =
                 IF i = 1 THEN Zeros(n_actions)
                          ELSE OneHot(n_actions, d_actions[i - 1])
        /\ t_idx >= 1 => prev_action = OneHot(n_actions, d_actions[t_idx])

\* two training turns with different ground-truth actions
C3_Witness ==
    /\ pc = "train_turn"
    /\ Len(d_features) = 2
    /\ d_actions[1] # d_actions[2]
    /\ d_features[2].prev = OneHot(n_actions, d_actions[1])

\* a turn of the training loop or of the inference loop has run
TurnStep ==
    /\ pc \in {"train_turn", "infer_turn"}
    /\ pc' = pc
    /\ t_idx' = t_idx + 1

\* C4: a turn of either loop replaces the stored db_result exactly when it
\* supplies one; a turn without db_result that follows a stored {"food": 1}
\* leaves it stored and encodes the flag "stored db_result is empty" as 0.
C4_StickyDbResult ==
    [][TurnStep =>
        /\ context'.db_result = None => db_result' = db_result
        /\ context'.db_result # None => db_result' = context'.db_result
        /\ (db_result = DbFood /\ context'.db_result = None) =>
              (db_result' = DbFood /\ features'.ctx[2] = 0)]_vars

\* the second turn of an inference dialog brought no db_result and the first
\* turn's {"food": 1} is still stored
C4_Witness ==
    /\ pc = "infer_turn"
    /\ t_idx = 2
    /\ context.db_result = None
    /\ db_result = DbFood
    /\ features.ctx[2] = 0

\* train is running or has run
InTrain == entry = "train" /\ outcome # "none"

\* C5: with val_patience >= 1, train stops exactly when an epoch completes a
\* run of val_patience epochs in a row whose accuracy was strictly below the
\* best before it, and runs no epoch after that; with patience 2 and more than
\* 3 epochs allowed, a best accuracy followed by two lower ones stops it after
\* the third epoch.
C5_StopsWhenPatienceRunsOut ==
    (InTrain /\ val_patience >= 1) =>
        /\ below_run <= val_patience
        /\ below_run = val_patience <=> outcome = "PATIENCE_EXHAUSTED"
        /\ outcome = "PATIENCE_EXHAUSTED" => (pc \in {"save", "idle"} /\ j <= num_epochs)
        /\ (val_patience = 2 /\ num_epochs > 3 /\ j = 3 /\ below_run = 2) =>
              outcome = "PATIENCE_EXHAUSTED"

\* accuracies 0.5, then two lower ones, with patience 2 and 4 epochs allowed:
\* train has returned after the third epoch
C5_Witness ==
    /\ InTrain
    /\ val_patience = 2
    /\ num_epochs > 3
    /\ j = 3
    /\ seen_max = MaxAcc
    /\ below_run = 2
    /\ outcome = "PATIENCE_EXHAUSTED"
    /\ pc = "idle"

\* the patience bookkeeping of one epoch, as claimed
EpochBookkeeping ==
    (pc = "early_stop" /\ pc' # pc) =>
        IF valid_accuracy < best_valid_accuracy
          THEN /\ curr_patience' = curr_patience - 1
               /\ best_valid_accuracy' = best_valid_accuracy
          ELSE /\ curr_patience' = val_patience
               /\ best_valid_accuracy' = valid_accuracy

\* C6: an epoch with an accuracy strictly below the best costs one unit of
\* patience and keeps the best, any other epoch restores the patience and sets
\* the best; the best is always the largest accuracy seen (0 before the
\* first), and the patience stays within 0 .. val_patience.
C6_PatienceAndBest ==
    /\ [](InTrain =>
            /\ best_valid_accuracy = seen_max
            /\ 0 <= curr_patience
            /\ curr_patience <= val_patience)
    /\ [][EpochBookkeeping]_vars

\* an epoch below the best has cost one unit of patience
C6_Witness ==
    /\ InTrain
    /\ pc = "epoch"
    /\ below_run = 1
    /\ curr_patience = val_patience - 1
    /\ best_valid_accuracy = MaxAcc

\* C7: when no epoch's accuracy is below an earlier one's (and val_patience is
\* at least 1, so that the patience is never used up), train never ends
\* patience-exhausted, and when it returns it has run exactly num_epochs epochs
\* and ended by reaching the maximum.
C7_RunsAllEpochs ==
    (InTrain /\ monotone /\ val_patience >= 1) =>
        /\ outcome # "PATIENCE_EXHAUSTED"
        /\ j <= num_epochs
        /\ (pc = "idle" /\ err = "none") =>
              (outcome = "MAX_EPOCHS_REACHED" /\ j = num_epochs)

\* MaxEpochs epochs of rising accuracy have run and train has returned
C7_Witness ==
    /\ InTrain
    /\ monotone
    /\ val_patience >= 1
    /\ num_epochs = MaxEpochs
    /\ j = num_epochs
    /\ seen_max = MaxAcc
    /\ outcome = "MAX_EPOCHS_REACHED"
    /\ pc = "idle"

\* C8: network.save() is not called while the epoch loop runs, and once the
\* loop has ended either way and train has returned it has been called exactly
\* once, also when num_epochs is 0.
C8_SavesOnceOnExit ==
    entry = "train" =>
        /\ pc # "idle" => saves = 0
        /\ outcome \in {"none", "RUNNING"} => saves = 0
        /\ (pc = "idle" /\ outcome \in {"PATIENCE_EXHAUSTED", "MAX_EPOCHS_REACHED"}) =>
              saves = 1

\* train with num_epochs = 0 has returned with one save
C8_Witness ==
    /\ entry = "train"
    /\ pc = "idle"
    /\ num_epochs = 0
    /\ j = 0
    /\ outcome = "MAX_EPOCHS_REACHED"
    /\ saves = 1

\* C9: train called with the bot's train_now set and the network's not set
\* raises the configuration error at once: no epoch starts, no dialog is
\* encoded, reset(), network.train and network.save are not called, and the
\* dialog state and the metrics stay as they were.
C9_ConfigErrorFirst ==
    [][(pc = "idle" /\ entry' = "train" /\ train_now /\ ~net_train_now) =>
        /\ err' = "ConfigError"
        /\ pc' = "idle"
        /\ outcome' = "none"
        /\ j' = 0
        /\ d_features' = << >>
        /\ saves' = 0
        /\ net_trains' = 0
        /\ UNCHANGED <<self_vars, metrics, dlg_resets, dlg_turns>>]_vars

\* the error was raised with a dialog in progress: its state is still there
C9_Witness ==
    /\ entry = "train"
    /\ pc = "idle"
    /\ err = "ConfigError"
    /\ net_state = "dirty"
    /\ prev_action # Zeros(n_actions)
    /\ dlg_turns >= 1

\* a mask as _action_mask must return it
GoodMask(m) ==
    /\ DOMAIN m = 0..(n_actions - 1)
    /\ \A i \in DOMAIN m : m[i] \in {0, 1}
    /\ ~use_action_mask => \A i \in DOMAIN m : m[i] = 1

\* C10: n_actions is the number of loaded templates in every state, and the
\* mask built in any state, like every mask handed to the network, has
\* n_actions entries, each 0 or 1, all of them 1 when masking is disabled.
C10_MaskShape ==
    /\ n_actions = Len(templates)
    /\ GoodMask(action_mask(Self, use_action_mask))
    /\ mask # << >> => GoodMask(mask)
    /\ \A i \in 1..Len(d_masks) : GoodMask(d_masks[i])

\* masking is disabled and a mask of ones was built in a state where the third
\* template's "#{}" is in neither the tracker nor the database result
C10_Witness ==
    /\ ~use_action_mask
    /\ pc = "infer_turn"
    /\ mask = Ones(n_actions)
    /\ Keys(tracker) # {}
    /\ db_result = DbFood

\* the slot names the template of action a_id refers to ("#slot" tokens)
RefSlots(a_id) ==
    {SlotOf(templates[a_id + 1][i]) : i \in 1..Len(templates[a_id + 1])} \ {""}

\* the slot names known to the tracker or to the stored database result
KnownSlots ==
    Keys(get_state(tracker)) \cup
    (IF db_result = None THEN {} ELSE Keys(db_result.items))

\* C11, as claimed: with masking enabled the mask has a 0 for an action exactly
\* when its template refers to a slot that is in neither the tracker state nor
\* the stored database result, and a 1 otherwise. Stated for the mask a
\* training turn has just built, which is built from the state the turn leaves.
C11_MaskFollowsSlots ==
    (use_action_mask /\ pc = "train_turn" /\ t_idx >= 1) =>
        \A a_id \in 0..(n_actions - 1) :
            mask[a_id] =
                IF \E sl \in RefSlots(a_id) : sl \notin KnownSlots THEN 0 ELSE 1

\* the template loaded with the action label act
LabelTemplate(act) == templates[CHOOSE i \in 1..Len(actions) : actions[i] = act]

\* C12: the index a turn's action label was encoded to decodes to the template
\* of that label, for every label of the action list; a label that is not in
\* the list is never encoded, the call raises the lookup error instead.
C12_CodecRoundTrip ==
    /\ (pc = "train_turn" /\ t_idx >= 1) =>
          /\ KnownAct(context.act[1])
          /\ DecodeOk(d_actions[t_idx])
          /\ PyIndex(templates, d_actions[t_idx]) = LabelTemplate(context.act[1])
    /\ (pc \in {"train_turn", "infer_turn"} /\ t_idx >= 1 /\ context.act # << >>) =>
          KnownAct(context.act[1])
    /\ err = "LookupError" => (context.act # << >> /\ ~KnownAct(context.act[1]))
    /\ (entry \in {"train", "train_on_batch", "infer"} /\ context.act # << >>
          /\ ~KnownAct(context.act[1])) =>
          (err = "LookupError" /\ pc = "idle")

\* the last label of the list was encoded in the second turn of a dialog
C12_Witness ==
    /\ pc = "train_turn"
    /\ t_idx = 2
    /\ context.act = << actions[NumTemplates] >>
    /\ d_actions[2] = NumTemplates - 1
    /\ PyIndex(templates, d_actions[2]) = templates[NumTemplates]

\* the index of the one entry of a one-hot vector v that is 1
HotIndex(v) == CHOOSE i \in DOMAIN v : v[i] = 1

\* an inference turn of a dialog of a batch has run
InferTurnStep == pc = "infer_turn" /\ pc' = "infer_turn" /\ t_idx' = t_idx + 1

\* C13: while a dialog is inferred its result holds one response per turn
\* processed, each turn appends the response decoded for it, the result is
\* returned only after the dialog's last turn, one result per dialog joins the
\* batch's results, and a dialog starts only after the one before was returned.
C13_OneResponsePerTurn ==
    /\ [](pc = "infer_turn" => (Len(res) = t_idx /\ t_idx <= dlg_len))
    /\ [](pc = "infer_dialog" => res = << >>)
    /\ [](entry = "infer" /\ pc = "idle" /\ err = "none" => dialogs_left = 0)
    /\ [][InferTurnStep =>
            res' = Append(res, decode_response(Self', HotIndex(prev_action')))]_vars
    /\ [][(pc = "infer_turn" /\ pc' = "infer_dialog") =>
            /\ Len(res) = dlg_len
            /\ out' = out + 1
            /\ dialogs_left' = dialogs_left - 1]_vars
    /\ [][(pc = "infer_dialog" /\ pc' = "infer_turn") =>
            (dialogs_left > 0 /\ t_idx' = 0 /\ res' = << >> /\ out' = out)]_vars

\* the second dialog of a batch has two responses, the first was returned
C13_Witness ==
    /\ entry = "infer"
    /\ pc = "infer_turn"
    /\ out = 1
    /\ dlg_len = 2
    /\ Len(res) = 2
    /\ res[1] # res[2]

\* exactly one entry of v is 1 and all others are 0
IsOneHot(v) ==
    \E i \in DOMAIN v : v[i] = 1 /\ \A k \in DOMAIN v \ {i} : v[k] = 0

\* an inference turn was the last thing to touch the dialog state
JustInferred ==
    \/ pc = "infer_turn" /\ t_idx >= 1
    \/ pc = "idle" /\ entry = "infer_str"

\* C14: through train_on_batch and infer, prev_action always has n_actions
\* entries and is all zero or one-hot; it is all zero only while no turn has
\* run since the dialog state was last fresh, and after an inference turn its
\* hot entry is at a largest entry of what the network returned for the turn.
C14_PrevActionOneHot ==
    /\ DOMAIN prev_action = 0..(n_actions - 1)
    /\ prev_action = Zeros(n_actions) \/ IsOneHot(prev_action)
    /\ prev_action = Zeros(n_actions) => dlg_turns = 0
    /\ dlg_turns >= 1 => IsOneHot(prev_action)
    /\ JustInferred =>
          /\ DOMAIN net_probs = DOMAIN prev_action
          /\ IsOneHot(prev_action)
          /\ \A k \in DOMAIN net_probs :
                net_probs[k] <= net_probs[HotIndex(prev_action)]

\* the second inference turn predicted another action than the first, which
\* was teacher-forced into the features of the second
C14_Witness ==
    /\ pc = "infer_turn"
    /\ t_idx = 2
    /\ IsOneHot(prev_action)
    /\ IsOneHot(features.prev)
    /\ features.prev # prev_action
    /\ net_probs[HotIndex(prev_action)] > net_probs[HotIndex(features.prev)]

\* the position, from 0, of the label act in the action list
IndexOf(act) == CHOOSE i \in 0..(Len(actions) - 1) : actions[i + 1] = act

\* the index the network predicted: the largest entry of its output p
Predicted(p) == CHOOSE i \in DOMAIN p : \A k \in DOMAIN p : p[k] <= p[i]

\* C15: the previous-action segment of the features of an inference turn is the
\* one-hot vector of the turn's prev_resp_act when it has one; without one it
\* is all zero at a dialog's first turn and the one-hot vector of the index
\* predicted at the dialog's preceding turn at a later turn.
C15_InferencePrevAction ==
    [][InferTurnStep =>
        features'.prev =
            IF context'.act # << >>
              THEN OneHot(n_actions, IndexOf(context'.act[1]))
              ELSE IF t_idx = 0 THEN Zeros(n_actions)
                                ELSE OneHot(n_actions, Predicted(net_probs))]_vars

\* the second turn of a dialog carried a label other than the action predicted
\* for that turn, and its features hold the label's one-hot vector
C15_Witness ==
    /\ pc = "infer_turn"
    /\ t_idx = 2
    /\ context.act # << >>
    /\ features.prev = OneHot(n_actions, IndexOf(context.act[1]))
    /\ features.prev # prev_action
    /\ Len(res) = 2

\* 1 for the empty mapping and 0 for anything else, None included
EmptyFlag(db) == IF db # None /\ db.items = EmptyDict THEN 1 ELSE 0

\* C16: in every turn of the training loop and of the inference loop the first
\* context flag says whether the turn's own db_result is the empty mapping and
\* the second whether the db_result stored before the turn is; a missing
\* db_result and the None stored by reset give 0.
C16_ContextFlags ==
    [][TurnStep =>
        /\ features'.ctx[1] = EmptyFlag(context'.db_result)
        /\ features'.ctx[2] = EmptyFlag(db_result)
        /\ context'.db_result = None => features'.ctx[1] = 0
        /\ t_idx = 0 => features'.ctx[2] = 0]_vars

\* the second turn brought the empty mapping while None or a non-empty mapping
\* was stored: the flags are (1, 0), although the empty mapping is the stored
\* one once the turn is over
C16_Witness ==
    /\ pc = "train_turn"
    /\ t_idx = 2
    /\ context.db_result = Dict(EmptyDict)
    /\ features.ctx = << 1, 0 >>
    /\ d_features[1].ctx = << 0, 0 >>
    /\ db_result = Dict(EmptyDict)

\* C17: while the turns of a training dialog are encoded network.train has not
\* been called for it and the three lists hold one entry per encoded turn, in
\* turn order; the call comes when all turns of the dialog are encoded, once,
\* and the next dialog starts from empty lists.
C17_TrainOncePerDialog ==
    /\ [](pc = "train_turn" =>
            /\ net_trains = 0
            /\ t_idx <= dlg_len
            /\ Len(d_features) = t_idx
            /\ Len(d_actions) = t_idx
            /\ Len(d_masks) = t_idx)
    /\ [][(pc = "train_turn" /\ pc' = "train_turn") =>
            /\ d_features' = Append(d_features, features')
            /\ d_actions' = Append(d_actions, IndexOf(context'.act[1]))
            /\ d_masks' = Append(d_masks, mask')]_vars
    /\ [][(pc = "train_turn" /\ pc' = "train_dialog") =>
            /\ t_idx = dlg_len
            /\ Len(d_features) = dlg_len
            /\ Len(d_actions) = dlg_len
            /\ Len(d_masks) = dlg_len
            /\ net_trains' = 1]_vars
    /\ [][(pc = "train_dialog" /\ pc' = "train_turn") =>
            /\ net_trains' = 0
            /\ t_idx' = 0
            /\ d_features' = << >>
            /\ d_actions' = << >>
            /\ d_masks' = << >>]_vars

\* the last dialog of a batch, of two turns, has been given to network.train
C17_Witness ==
    /\ entry = "train_on_batch"
    /\ pc = "train_dialog"
    /\ net_trains = 1
    /\ dlg_len = 2
    /\ t_idx = 2
    /\ dialogs_left = 0
    /\ net_state = "dirty"

\* the slot mapping the claim describes, from the tracker state and the stored
\* database result of the current state
ClaimedSlots ==
    LET dbk == IF db_result = None THEN {} ELSE Keys(db_result.items)
    IN  [k \in Keys(tracker) \cup dbk |->
            IF k \in dbk THEN Str(db_result.items[k]) ELSE tracker[k]]

\* C18: the response of an inference turn is the predicted action's template
\* rendered against the tracker's values overlaid with the database result
\* stored once the turn's own db_result has been applied: the database value
\* for a key in both, the one source's value for a key in one, and the
\* tracker's values alone when the stored result is None.
C18_DecodeOverlay ==
    JustInferred =>
        /\ Len(res) >= 1
        /\ res[Len(res)] =
              generate_text(PyIndex(templates, HotIndex(prev_action)), ClaimedSlots)

\* the first turn of a dialog filled the slot food, brought a database result
\* with another value for food, and the response shows the database's value
C18_Witness ==
    /\ pc = "infer_turn"
    /\ t_idx = 1
    /\ Keys(tracker) = {"food"}
    /\ context.db_result = DbFood
    /\ db_result = DbFood
    /\ res = << << "serves", Str(1) >> >>

\* a direct call of _decode_response has returned or raised
JustDecoded == pc = "idle" /\ entry = "decode"

\* C19, as claimed: decoding raises for every index outside 0 .. n_actions - 1,
\* the negative ones included, and for every index inside it returns the
\* rendered template at that position.
C19_DecodeIndexRange ==
    JustDecoded =>
        /\ err = "IndexError" <=> (decoded.id < 0 \/ decoded.id >= n_actions)
        /\ (0 <= decoded.id /\ decoded.id < n_actions) =>
              decoded.text = generate_text(templates[decoded.id + 1], ClaimedSlots)

\* C20, as claimed: the mask a training turn with a db_result builds is the
\* mask an inference turn builds from the same dialog state for the same
\* slots and the same db_result.
C20_SameMaskTrainInfer ==
    [][(pc = "train_turn" /\ pc' = "train_turn" /\ context'.db_result # None) =>
        \A fill \in SlotFills, probs \in NetOutputs(n_actions) :
            update_state(tracker, fill) = tracker' =>
                infer_turn(Self, fill, context'.db_result, probs, FALSE,
                           use_action_mask).mask = mask']_vars

====
